---- MODULE Spec2Model ----
(***************************************************************************)
(* Staking message layer of x/dao/types (content.go): the stateless        *)
(* checks, signer lists and JSON transcoding of MsgCreateValidator,        *)
(* MsgEditValidator, MsgDelegate, MsgIndexDelegate, MsgBeginRedelegate and *)
(* MsgUndelegate, and the delivery pipeline of MsgIndexDelegate.           *)
(*                                                                         *)
(* Addresses are byte strings (sequences); sdk.Int values are integers;    *)
(* sdk.Dec values are fixed-point integers with unit OneDec; a pointer     *)
(* field (pointer to sdk.Dec or sdk.Int) is a record [present, val].       *)
(***************************************************************************)
EXTENDS Integers, Sequences, FiniteSets, TLC

VARIABLES
    msg,        \* the message under processing (a record tagged by type)
    verr,       \* result of msg.ValidateBasic(): [done, err]
    signers,    \* result of msg.GetSigners(): [done, addrs]
    encoded,    \* result of msg.MarshalJSON(): [done, panic, bz]
    input,      \* the bytes last handed to UnmarshalJSON
    decoded,    \* result of UnmarshalJSON(input): [done, err, msg]
    validators, \* ledger: addresses of the existing validators
    shares,     \* ledger: DelegationRecord, <<delegator, validator>> -> shares
    deliverRes  \* result of delivering msg through the pipeline: [done, err]

vars == <<msg, verr, signers, encoded, input, decoded, validators, shares, deliverRes>>

-----------------------------------------------------------------------------
(* Bounds of the model *)

MaxPortions == 2     \* longest Portions list of a MsgIndexDelegate
MaxShares == 20      \* cap on the shares of one delegation record

-----------------------------------------------------------------------------
(* Values *)

OneDec == 10         \* sdk.OneDec(): 1.0 in fixed point (one decimal place here)

EmptyAddr == << >>
Addrs == {EmptyAddr, <<1>>, <<2>>}
NonEmptyAddrs == Addrs \ {EmptyAddr}

AmountValues == {-5, 0, 100, 150}
MinSelfValues == {-5, 0, 50, 150}
PortionAmounts == {-5, 0, 10}
DecValues == {-1, 0, 5, OneDec, 15}

Coin(amount) == [Denom |-> "stake", Amount |-> amount]

\* a pointer: nil, or pointing at a value
NilPtr == [present |-> FALSE, val |-> 0]
Ptr(v) == [present |-> TRUE, val |-> v]

\* Description{} is the struct with every string empty
EmptyDescription == [Moniker |-> "", Identity |-> "", Website |-> "", Details |-> ""]
Descriptions == {EmptyDescription, [EmptyDescription EXCEPT !.Moniker = "moniker"]}

\* CommissionMsg{} holds three zero-value sdk.Dec (nil big.Int pointers);
\* a Dec built by the sdk points at its number, also when the number is 0
EmptyCommission == [Rate |-> NilPtr, MaxRate |-> NilPtr, MaxChangeRate |-> NilPtr]
Commissions == {EmptyCommission, [Rate |-> Ptr(0), MaxRate |-> Ptr(0), MaxChangeRate |-> Ptr(0)]}

Denoms == {"", "share"}

\* crypto.PubKey: the nil interface, or the bytes of a key
NilPubKey == << >>
PubKeys == {NilPubKey, <<1, 2>>, <<3, 4>>}

-----------------------------------------------------------------------------
(* Errors: sdk.Error is nil or a typed error (kind, text) *)

Nil == [kind |-> "nil", text |-> ""]
NewError(kind, text) == [kind |-> kind, text |-> text]
ErrNilDelegatorAddr == NewError("NilDelegatorAddress", "")
ErrNilValidatorAddr == NewError("NilValidatorAddress", "")
ErrBadValidatorAddr == NewError("BadValidatorAddress", "")
ErrBadDelegationAmount == NewError("BadDelegationAmount", "")
ErrBadSharesAmount == NewError("BadSharesAmount", "")
ErrMinSelfDelegationInvalid == NewError("MinSelfDelegationInvalid", "")
ErrSelfDelegationBelowMinimum == NewError("SelfDelegationBelowMinimum", "")

Empty(addr) == Len(addr) = 0

-----------------------------------------------------------------------------
(* Messages *)

MsgCreateValidator(desc, comm, msd, del, val, pk, value, denom) ==
    [type |-> "create_validator", Description |-> desc, Commission |-> comm,
     MinSelfDelegation |-> msd, DelegatorAddress |-> del, ValidatorAddress |-> val,
     PubKey |-> pk, Value |-> value, ShareTokenDenom |-> denom]

NewMsgCreateValidator(valAddr, pubKey, selfDelegation, description, commission, minSelfDelegation, shareTokenDenom) ==
    MsgCreateValidator(description, commission, minSelfDelegation, valAddr,
                       valAddr, pubKey, selfDelegation, shareTokenDenom)

NewMsgEditValidator(valAddr, description, newRate, newMinSelfDelegation) ==
    [type |-> "edit_validator", Description |-> description, ValidatorAddress |-> valAddr,
     CommissionRate |-> newRate, MinSelfDelegation |-> newMinSelfDelegation]

NewMsgDelegate(delAddr, valAddr, amount) ==
    [type |-> "delegate", DelegatorAddress |-> delAddr, ValidatorAddress |-> valAddr,
     Amount |-> amount]

NewMsgUndelegate(delAddr, valAddr, amount) ==
    [type |-> "begin_unbonding", DelegatorAddress |-> delAddr, ValidatorAddress |-> valAddr,
     Amount |-> amount]

NewMsgBeginRedelegate(delAddr, valSrcAddr, valDstAddr, amount) ==
    [type |-> "begin_redelegate", DelegatorAddress |-> delAddr,
     ValidatorSrcAddress |-> valSrcAddr, ValidatorDstAddress |-> valDstAddr,
     Amount |-> amount]

ValidatorPortion(valAddr, amount) == [ValidatorAddress |-> valAddr, Amount |-> amount]

MsgIndexDelegate(delAddr, portions, denom) ==
    [type |-> "index_delegate", DelegatorAddress |-> delAddr, Portions |-> portions,
     Denomination |-> denom]

-----------------------------------------------------------------------------
(* GetSigners *)

\* a GetSigners that always asks for the validator's signature
GetSignersAlwaysBoth(m) ==
    <<m.DelegatorAddress, m.ValidatorAddress>>

\* MsgCreateValidator.GetSigners: the delegator first, then the validator
\* (cast to an account address: the same bytes) when the bytes differ
MsgCreateValidator_GetSigners(m) ==
    LET addrs == <<m.DelegatorAddress>> IN
    IF m.DelegatorAddress # m.ValidatorAddress
    THEN Append(addrs, m.ValidatorAddress)
    ELSE addrs

-----------------------------------------------------------------------------
(* ValidateBasic *)

\* a ValidateBasic that rejects a self delegation equal to the minimum
CreateValidateBasicStrictMinimum(m) ==
    IF Empty(m.DelegatorAddress) THEN ErrNilDelegatorAddr
    ELSE IF Empty(m.ValidatorAddress) THEN ErrNilValidatorAddr
    ELSE IF m.ValidatorAddress # m.DelegatorAddress THEN ErrBadValidatorAddr
    ELSE IF m.Value.Amount <= 0 THEN ErrBadDelegationAmount
    ELSE IF m.Description = EmptyDescription
        THEN NewError("InvalidInput", "description must be included")
    ELSE IF m.Commission = EmptyCommission
        THEN NewError("InvalidInput", "commission must be included")
    ELSE IF m.ShareTokenDenom = ""
        THEN NewError("InvalidInput", "share token denomination must be included.")
    ELSE IF ~(m.MinSelfDelegation > 0) THEN ErrMinSelfDelegationInvalid
    ELSE IF m.Value.Amount <= m.MinSelfDelegation THEN ErrSelfDelegationBelowMinimum
    ELSE Nil

\* a ValidateBasic without the check that the validator is the delegator
CreateValidateBasicAnyValidator(m) ==
    IF Empty(m.DelegatorAddress) THEN ErrNilDelegatorAddr
    ELSE IF Empty(m.ValidatorAddress) THEN ErrNilValidatorAddr
    ELSE IF m.Value.Amount <= 0 THEN ErrBadDelegationAmount
    ELSE IF m.Description = EmptyDescription
        THEN NewError("InvalidInput", "description must be included")
    ELSE IF m.Commission = EmptyCommission
        THEN NewError("InvalidInput", "commission must be included")
    ELSE IF m.ShareTokenDenom = ""
        THEN NewError("InvalidInput", "share token denomination must be included.")
    ELSE IF ~(m.MinSelfDelegation > 0) THEN ErrMinSelfDelegationInvalid
    ELSE IF m.Value.Amount < m.MinSelfDelegation THEN ErrSelfDelegationBelowMinimum
    ELSE Nil

\* MsgCreateValidator.ValidateBasic
MsgCreateValidator_ValidateBasic(m) ==
    IF Empty(m.DelegatorAddress) THEN ErrNilDelegatorAddr
    ELSE IF Empty(m.ValidatorAddress) THEN ErrNilValidatorAddr
    ELSE IF m.ValidatorAddress # m.DelegatorAddress THEN ErrBadValidatorAddr
    ELSE IF m.Value.Amount <= 0 THEN ErrBadDelegationAmount
    ELSE IF m.Description = EmptyDescription
        THEN NewError("InvalidInput", "description must be included")
    ELSE IF m.Commission = EmptyCommission
        THEN NewError("InvalidInput", "commission must be included")
    ELSE IF m.ShareTokenDenom = ""
        THEN NewError("InvalidInput", "share token denomination must be included.")
    ELSE IF ~(m.MinSelfDelegation > 0) THEN ErrMinSelfDelegationInvalid
    ELSE IF m.Value.Amount < m.MinSelfDelegation THEN ErrSelfDelegationBelowMinimum
    ELSE Nil

\* a ValidateBasic whose rate check also rejects a rate of exactly one
EditValidateBasicExclusiveRate(m) ==
    IF Empty(m.ValidatorAddress) THEN NewError("InvalidInput", "nil validator address")
    ELSE IF m.Description = EmptyDescription
        THEN NewError("InvalidInput", "transaction must include some information to modify")
    ELSE IF m.MinSelfDelegation.present /\ ~(m.MinSelfDelegation.val > 0)
        THEN ErrMinSelfDelegationInvalid
    ELSE IF m.CommissionRate.present
            /\ (m.CommissionRate.val >= OneDec \/ m.CommissionRate.val < 0)
        THEN NewError("InvalidInput", "commission rate must be between 0 and 1, inclusive")
    ELSE Nil

\* MsgEditValidator.ValidateBasic
MsgEditValidator_ValidateBasic(m) ==
    IF Empty(m.ValidatorAddress) THEN NewError("InvalidInput", "nil validator address")
    ELSE IF m.Description = EmptyDescription
        THEN NewError("InvalidInput", "transaction must include some information to modify")
    ELSE IF m.MinSelfDelegation.present /\ ~(m.MinSelfDelegation.val > 0)
        THEN ErrMinSelfDelegationInvalid
    ELSE IF m.CommissionRate.present
            /\ (m.CommissionRate.val > OneDec \/ m.CommissionRate.val < 0)
        THEN NewError("InvalidInput", "commission rate must be between 0 and 1, inclusive")
    ELSE Nil

\* MsgDelegate.ValidateBasic
MsgDelegate_ValidateBasic(m) ==
    IF Empty(m.DelegatorAddress) THEN ErrNilDelegatorAddr
    ELSE IF Empty(m.ValidatorAddress) THEN ErrNilValidatorAddr
    ELSE IF m.Amount.Amount <= 0 THEN ErrBadDelegationAmount
    ELSE Nil

\* a ValidateBasic that forgets the destination validator
RedelegateValidateBasicNoDst(m) ==
    IF Empty(m.DelegatorAddress) THEN ErrNilDelegatorAddr
    ELSE IF Empty(m.ValidatorSrcAddress) THEN ErrNilValidatorAddr
    ELSE IF m.Amount.Amount <= 0 THEN ErrBadSharesAmount
    ELSE Nil

\* MsgBeginRedelegate.ValidateBasic
MsgBeginRedelegate_ValidateBasic(m) ==
    IF Empty(m.DelegatorAddress) THEN ErrNilDelegatorAddr
    ELSE IF Empty(m.ValidatorSrcAddress) THEN ErrNilValidatorAddr
    ELSE IF Empty(m.ValidatorDstAddress) THEN ErrNilValidatorAddr
    ELSE IF m.Amount.Amount <= 0 THEN ErrBadSharesAmount
    ELSE Nil

\* MsgUndelegate.ValidateBasic
MsgUndelegate_ValidateBasic(m) ==
    IF Empty(m.DelegatorAddress) THEN ErrNilDelegatorAddr
    ELSE IF Empty(m.ValidatorAddress) THEN ErrNilValidatorAddr
    ELSE IF m.Amount.Amount <= 0 THEN ErrBadSharesAmount
    ELSE Nil

\* the loop of MsgIndexDelegate.ValidateBasic over msg.Portions, from index i
RECURSIVE CheckPortions(_, _)
CheckPortions(portions, i) ==
    IF i > Len(portions) THEN Nil
    ELSE IF Empty(portions[i].ValidatorAddress) THEN ErrNilValidatorAddr
    ELSE IF portions[i].Amount.Amount <= 0 THEN ErrBadDelegationAmount
    ELSE CheckPortions(portions, i + 1)

\* a loop that looks at the amount of a portion before its address
RECURSIVE CheckPortionsAmountFirst(_, _)
CheckPortionsAmountFirst(portions, i) ==
    IF i > Len(portions) THEN Nil
    ELSE IF portions[i].Amount.Amount <= 0 THEN ErrBadDelegationAmount
    ELSE IF Empty(portions[i].ValidatorAddress) THEN ErrNilValidatorAddr
    ELSE CheckPortionsAmountFirst(portions, i + 1)

\* a ValidateBasic with the amount-first loop
IndexValidateBasicAmountFirst(m) ==
    IF Empty(m.DelegatorAddress) THEN ErrNilDelegatorAddr
    ELSE CheckPortionsAmountFirst(m.Portions, 1)

\* a ValidateBasic that looks at the first portion only
IndexValidateBasicFirstOnly(m) ==
    IF Empty(m.DelegatorAddress) THEN ErrNilDelegatorAddr
    ELSE CheckPortions(IF Len(m.Portions) = 0 THEN << >> ELSE <<Head(m.Portions)>>, 1)

\* a ValidateBasic that also rejects a validator named by two portions
IndexValidateBasicDistinct(m) ==
    IF Empty(m.DelegatorAddress) THEN ErrNilDelegatorAddr
    ELSE IF \E i, j \in 1..Len(m.Portions) :
                i # j /\ m.Portions[i].ValidatorAddress = m.Portions[j].ValidatorAddress
        THEN ErrBadValidatorAddr
    ELSE CheckPortions(m.Portions, 1)

\* MsgIndexDelegate.ValidateBasic
MsgIndexDelegate_ValidateBasic(m) ==
    IF Empty(m.DelegatorAddress) THEN ErrNilDelegatorAddr
    ELSE CheckPortions(m.Portions, 1)

-----------------------------------------------------------------------------
(* JSON transcoding of MsgCreateValidator *)

\* bech32 text of a consensus public key: human-readable part, data, checksum
Bech32PrefixConsPub == "cosmosvalconspub"

RECURSIVE SumBytes(_)
SumBytes(bz) == IF Len(bz) = 0 THEN 0 ELSE Head(bz) + SumBytes(Tail(bz))

Bech32Checksum(hrp, data) == (SumBytes(data) + Len(hrp)) % 7

Bech32String(hrp, data, checksum) == [hrp |-> hrp, data |-> data, checksum |-> checksum]

EmptyString == Bech32String("", << >>, 0)

\* sdk.MustBech32ifyConsPub: the text of the key; panics when it cannot encode
MustBech32ifyConsPub(pub) ==
    IF pub = NilPubKey
    THEN [panic |-> TRUE, str |-> EmptyString]
    ELSE [panic |-> FALSE,
          str |-> Bech32String(Bech32PrefixConsPub, pub,
                               Bech32Checksum(Bech32PrefixConsPub, pub))]

\* sdk.GetConsPubKeyBech32: the key of a text, or an error
GetConsPubKeyBech32(str) ==
    IF str.hrp # Bech32PrefixConsPub
        \/ str.checksum # Bech32Checksum(str.hrp, str.data)
        \/ Len(str.data) = 0
    THEN [err |-> NewError("DecodeError", "invalid bech32 consensus public key"),
          key |-> NilPubKey]
    ELSE [err |-> Nil, key |-> str.data]

\* the texts a client may send in the pubkey field
Bech32Strings ==
    {MustBech32ifyConsPub(pk).str : pk \in PubKeys \ {NilPubKey}}
    \cup {EmptyString,
          Bech32String(Bech32PrefixConsPub, <<1, 2>>,
                       (Bech32Checksum(Bech32PrefixConsPub, <<1, 2>>) + 1) % 7),
          Bech32String("cosmospub", <<1, 2>>, Bech32Checksum("cosmospub", <<1, 2>>))}

msgCreateValidatorJSON(desc, comm, msd, del, val, pk, value, denom) ==
    [Description |-> desc, Commission |-> comm, MinSelfDelegation |-> msd,
     DelegatorAddress |-> del, ValidatorAddress |-> val, PubKey |-> pk,
     Value |-> value, ShareTokenDenom |-> denom]

ZeroCoin == [Denom |-> "", Amount |-> 0]

\* the zero values of the two structs
ZeroMsgCreateValidator ==
    MsgCreateValidator(EmptyDescription, EmptyCommission, 0, EmptyAddr, EmptyAddr,
                       NilPubKey, ZeroCoin, "")
ZeroJSON ==
    msgCreateValidatorJSON(EmptyDescription, EmptyCommission, 0, EmptyAddr, EmptyAddr,
                           EmptyString, ZeroCoin, "")

\* json.Marshal / json.Unmarshal of msgCreateValidatorJSON: bytes are either
\* the text of an object or not JSON of that shape
jsonMarshal(obj) == [valid |-> TRUE, obj |-> obj]
MalformedJSON == [valid |-> FALSE, obj |-> ZeroJSON]
jsonUnmarshal(bz) ==
    IF bz.valid THEN [err |-> Nil, obj |-> bz.obj]
    ELSE [err |-> NewError("DecodeError", "invalid JSON"), obj |-> ZeroJSON]

\* MsgCreateValidator.MarshalJSON
MsgCreateValidator_MarshalJSON(m) ==
    LET pk == MustBech32ifyConsPub(m.PubKey) IN
    IF pk.panic THEN [panic |-> TRUE, bz |-> MalformedJSON]
    ELSE [panic |-> FALSE,
          bz |-> jsonMarshal(msgCreateValidatorJSON(
                    m.Description, m.Commission, m.MinSelfDelegation,
                    m.DelegatorAddress, m.ValidatorAddress, pk.str,
                    m.Value, m.ShareTokenDenom))]

\* an UnmarshalJSON that forgets to copy the share token denomination
UnmarshalJSONNoDenom(recv, bz) ==
    LET j == jsonUnmarshal(bz)
        pk == GetConsPubKeyBech32(j.obj.PubKey)
    IN  IF j.err # Nil THEN [err |-> j.err, msg |-> recv]
        ELSE IF pk.err # Nil THEN [err |-> pk.err, msg |-> recv]
        ELSE [err |-> Nil,
              msg |-> [recv EXCEPT !.Description = j.obj.Description,
                                   !.Commission = j.obj.Commission,
                                   !.DelegatorAddress = j.obj.DelegatorAddress,
                                   !.ValidatorAddress = j.obj.ValidatorAddress,
                                   !.PubKey = pk.key,
                                   !.Value = j.obj.Value,
                                   !.MinSelfDelegation = j.obj.MinSelfDelegation]]

\* MsgCreateValidator.UnmarshalJSON on the receiver recv: the error and the
\* receiver after the call
MsgCreateValidator_UnmarshalJSON(recv, bz) ==
    LET j == jsonUnmarshal(bz)
        m1 == [recv EXCEPT !.Description = j.obj.Description,
                           !.Commission = j.obj.Commission,
                           !.DelegatorAddress = j.obj.DelegatorAddress,
                           !.ValidatorAddress = j.obj.ValidatorAddress]
        pk == GetConsPubKeyBech32(j.obj.PubKey)
        m2 == [m1 EXCEPT !.PubKey = pk.key]
    IN  IF j.err # Nil THEN [err |-> j.err, msg |-> recv]
        ELSE IF pk.err # Nil THEN [err |-> pk.err, msg |-> m2]
        ELSE [err |-> Nil,
              msg |-> [m2 EXCEPT !.Value = j.obj.Value,
                                 !.MinSelfDelegation = j.obj.MinSelfDelegation,
                                 !.ShareTokenDenom = j.obj.ShareTokenDenom]]

-----------------------------------------------------------------------------
(* Staking ledger: application of a validated MsgIndexDelegate *)

ErrNoValidatorFound == NewError("NoValidatorFound", "")

\* the portions from index i applied in order to the working copy sh of the
\* delegation records, one share per token
RECURSIVE ApplyPortions(_, _, _, _, _)
ApplyPortions(vals, sh, del, portions, i) ==
    IF i > Len(portions) THEN [err |-> Nil, shares |-> sh]
    ELSE IF portions[i].ValidatorAddress \notin vals
        THEN [err |-> ErrNoValidatorFound, shares |-> sh]
    ELSE ApplyPortions(vals,
            [sh EXCEPT ![<<del, portions[i].ValidatorAddress>>] =
                            @ + portions[i].Amount.Amount],
            del, portions, i + 1)

\* ApplyIndexDelegate: every portion is applied, or none is
ApplyIndexDelegate(vals, sh, m) ==
    LET r == ApplyPortions(vals, sh, m.DelegatorAddress, m.Portions, 1) IN
    IF r.err # Nil THEN [err |-> r.err, shares |-> sh] ELSE r

\* the pipeline: ValidateBasic, then the ledger
DeliverIndexDelegateResult(vals, sh, m) ==
    LET err == MsgIndexDelegate_ValidateBasic(m) IN
    IF err # Nil THEN [err |-> err, shares |-> sh]
    ELSE ApplyIndexDelegate(vals, sh, m)

-----------------------------------------------------------------------------
(* The messages of the model *)

\* the messages the constructor builds
ConstructedCreateMsgs ==
    {NewMsgCreateValidator(val, pk, Coin(a), desc, comm, msd, denom) :
        val \in Addrs, pk \in PubKeys, a \in AmountValues, desc \in Descriptions,
        comm \in Commissions, msd \in MinSelfValues, denom \in Denoms}

\* the messages a client may send: any value of the struct
CreateMsgs ==
    ConstructedCreateMsgs \cup
    {MsgCreateValidator(desc, comm, msd, del, val, pk, Coin(a), denom) :
        desc \in Descriptions, comm \in Commissions, msd \in MinSelfValues,
        del \in Addrs, val \in Addrs, pk \in PubKeys, a \in AmountValues,
        denom \in Denoms}

Ptrs(S) == {NilPtr} \cup {Ptr(v) : v \in S}

EditMsgs ==
    {NewMsgEditValidator(val, desc, rate, msd) :
        val \in Addrs, desc \in Descriptions, rate \in Ptrs(DecValues),
        msd \in Ptrs(MinSelfValues)}

DelegateMsgs ==
    {NewMsgDelegate(del, val, Coin(a)) : del \in Addrs, val \in Addrs, a \in AmountValues}

UndelegateMsgs ==
    {NewMsgUndelegate(del, val, Coin(a)) : del \in Addrs, val \in Addrs, a \in AmountValues}

RedelegateMsgs ==
    {NewMsgBeginRedelegate(del, src, dst, Coin(a)) :
        del \in Addrs, src \in Addrs, dst \in Addrs, a \in AmountValues}

Portions == {ValidatorPortion(val, Coin(a)) : val \in Addrs, a \in PortionAmounts}

PortionLists == UNION {[1..n -> Portions] : n \in 0..MaxPortions}

IndexMsgs ==
    {MsgIndexDelegate(del, portions, "stake") : del \in Addrs, portions \in PortionLists}

\* the messages delivered to the ledger
LedgerDelegators == {EmptyAddr, <<1>>}
LedgerAmounts == {-5, 10}
LedgerPortions == {ValidatorPortion(val, Coin(a)) : val \in Addrs, a \in LedgerAmounts}
LedgerMsgs ==
    {MsgIndexDelegate(del, portions, "stake") :
        del \in LedgerDelegators,
        portions \in UNION {[1..n -> LedgerPortions] : n \in 0..MaxPortions}}

AllMsgs ==
    CreateMsgs \cup EditMsgs \cup DelegateMsgs \cup UndelegateMsgs
        \cup RedelegateMsgs \cup IndexMsgs

-----------------------------------------------------------------------------
(* State *)

NoErr == [done |-> FALSE, err |-> Nil]
NoSigners == [done |-> FALSE, addrs |-> << >>]
NoEncoded == [done |-> FALSE, panic |-> FALSE, bz |-> MalformedJSON]
NoDecoded == [done |-> FALSE, err |-> Nil, msg |-> ZeroMsgCreateValidator]

DelegationKeys == NonEmptyAddrs \X NonEmptyAddrs

NoResults ==
    /\ verr = NoErr
    /\ signers = NoSigners
    /\ encoded = NoEncoded
    /\ input = MalformedJSON
    /\ decoded = NoDecoded
    /\ deliverRes = NoErr

\* a message arrives: any value of any of the six message types
Init ==
    /\ msg \in AllMsgs
    /\ NoResults
    /\ validators = {}
    /\ shares = [k \in DelegationKeys |-> 0]

\* the next message replaces the one under processing
Fresh(m) ==
    /\ msg' = m
    /\ verr' = NoErr
    /\ signers' = NoSigners
    /\ encoded' = NoEncoded
    /\ input' = MalformedJSON
    /\ decoded' = NoDecoded
    /\ deliverRes' = NoErr
    /\ UNCHANGED <<validators, shares>>

-----------------------------------------------------------------------------
(* The next message for the ledger *)

\* MsgIndexDelegate has no constructor: a struct literal, delivered once the
\* message before it has been
NewIndexDelegate ==
    /\ deliverRes.done
    /\ \E m \in LedgerMsgs : Fresh(m)

-----------------------------------------------------------------------------
(* Operations on the message under processing *)

Validated(err) ==
    /\ verr' = [done |-> TRUE, err |-> err]
    /\ UNCHANGED <<msg, signers, encoded, input, decoded, validators, shares, deliverRes>>

CreateValidatorValidateBasic ==
    /\ msg.type = "create_validator"
    /\ Validated(MsgCreateValidator_ValidateBasic(msg))

EditValidatorValidateBasic ==
    /\ msg.type = "edit_validator"
    /\ Validated(MsgEditValidator_ValidateBasic(msg))

DelegateValidateBasic ==
    /\ msg.type = "delegate"
    /\ Validated(MsgDelegate_ValidateBasic(msg))

UndelegateValidateBasic ==
    /\ msg.type = "begin_unbonding"
    /\ Validated(MsgUndelegate_ValidateBasic(msg))

BeginRedelegateValidateBasic ==
    /\ msg.type = "begin_redelegate"
    /\ Validated(MsgBeginRedelegate_ValidateBasic(msg))

IndexDelegateValidateBasic ==
    /\ msg.type = "index_delegate"
    /\ Validated(MsgIndexDelegate_ValidateBasic(msg))

CreateValidatorGetSigners ==
    /\ msg.type = "create_validator"
    /\ signers' = [done |-> TRUE, addrs |-> MsgCreateValidator_GetSigners(msg)]
    /\ UNCHANGED <<msg, verr, encoded, input, decoded, validators, shares, deliverRes>>

MarshalJSON ==
    /\ msg.type = "create_validator"
    /\ LET r == MsgCreateValidator_MarshalJSON(msg) IN
        encoded' = [done |-> TRUE, panic |-> r.panic, bz |-> r.bz]
    /\ UNCHANGED <<msg, verr, signers, input, decoded, validators, shares, deliverRes>>

\* the bytes a receiver may be handed: what MarshalJSON produced, that object
\* with any text in the pubkey field, or bytes that are not such an object
Inputs ==
    {MalformedJSON}
    \cup (IF encoded.done /\ ~encoded.panic
          THEN {encoded.bz}
               \cup {jsonMarshal([encoded.bz.obj EXCEPT !.PubKey = str]) : str \in Bech32Strings}
          ELSE {})

\* UnmarshalJSON into a zero-valued receiver
UnmarshalJSON ==
    /\ \E bz \in Inputs :
        LET r == MsgCreateValidator_UnmarshalJSON(ZeroMsgCreateValidator, bz) IN
        /\ input' = bz
        /\ decoded' = [done |-> TRUE, err |-> r.err, msg |-> r.msg]
    /\ UNCHANGED <<msg, verr, signers, encoded, validators, shares, deliverRes>>

\* the pipeline delivers the MsgIndexDelegate under processing
DeliverIndexDelegate ==
    /\ msg.type = "index_delegate"
    /\ ~deliverRes.done
    /\ LET r == DeliverIndexDelegateResult(validators, shares, msg) IN
        /\ \A k \in DelegationKeys : r.shares[k] <= MaxShares
        /\ deliverRes' = [done |-> TRUE, err |-> r.err]
        /\ shares' = r.shares
    /\ UNCHANGED <<msg, verr, signers, encoded, input, decoded, validators>>

-----------------------------------------------------------------------------
(* Specifications *)

\* the stateless message layer
Next ==
    \/ CreateValidatorValidateBasic
    \/ EditValidatorValidateBasic
    \/ DelegateValidateBasic
    \/ UndelegateValidateBasic
    \/ BeginRedelegateValidateBasic
    \/ IndexDelegateValidateBasic
    \/ CreateValidatorGetSigners

Spec == Init /\ [][Next]_vars

\* JSON transcoding of MsgCreateValidator
InitJSON ==
    /\ msg \in CreateMsgs
    /\ NoResults
    /\ validators = {}
    /\ shares = [k \in DelegationKeys |-> 0]

NextJSON ==
    \/ MarshalJSON
    \/ UnmarshalJSON

SpecJSON == InitJSON /\ [][NextJSON]_vars

\* delivery of MsgIndexDelegate to a ledger whose validators are given at genesis
InitLedger ==
    /\ msg \in LedgerMsgs
    /\ NoResults
    /\ validators \in {{<<1>>}, {<<1>>, <<2>>}}
    /\ shares = [k \in DelegationKeys |-> 0]

NextLedger ==
    \/ NewIndexDelegate
    \/ DeliverIndexDelegate

SpecLedger == InitLedger /\ [][NextLedger]_vars

-----------------------------------------------------------------------------
(* Properties *)

RateInRange(rate) == rate.val >= 0 /\ rate.val <= OneDec

\* C1: MsgEditValidator.ValidateBasic accepts every message with a non-empty
\* validator address that changes at least one field (a non-default
\* description, a present commission rate, or a present min-self-delegation),
\* the present values being in range; so also the message with rate 0.5, the
\* default description and no min-self-delegation.
C1_EditAcceptsAnyChange ==
    (/\ msg.type = "edit_validator"
     /\ verr.done
     /\ ~Empty(msg.ValidatorAddress)
     /\ \/ msg.Description # EmptyDescription
        \/ msg.CommissionRate.present
        \/ msg.MinSelfDelegation.present
     /\ msg.CommissionRate.present => RateInRange(msg.CommissionRate)
     /\ msg.MinSelfDelegation.present => msg.MinSelfDelegation.val > 0)
    => verr.err = Nil

CreateConditionsButFloor(m) ==
    /\ ~Empty(m.DelegatorAddress)
    /\ ~Empty(m.ValidatorAddress)
    /\ m.ValidatorAddress = m.DelegatorAddress
    /\ m.Value.Amount > 0
    /\ m.Description # EmptyDescription
    /\ m.Commission # EmptyCommission
    /\ m.ShareTokenDenom # ""
    /\ m.MinSelfDelegation > 0

\* C2: MsgCreateValidator.ValidateBasic succeeds exactly when the addresses
\* are non-empty and equal, the value is positive, description and commission
\* are non-default, the share token denomination is non-empty,
\* minSelfDelegation > 0 and value >= minSelfDelegation; when only the last
\* condition is violated the error is SelfDelegationBelowMinimum.
C2_CreateValidateBasic ==
    (msg.type = "create_validator" /\ verr.done) =>
        /\ verr.err = Nil <=>
              (CreateConditionsButFloor(msg)
                /\ msg.Value.Amount >= msg.MinSelfDelegation)
        /\ (CreateConditionsButFloor(msg)
                /\ ~(msg.Value.Amount >= msg.MinSelfDelegation))
              => verr.err = ErrSelfDelegationBelowMinimum

C2_Witness ==
    /\ msg.type = "create_validator"
    /\ verr.done
    /\ msg.Value.Amount = 100
    /\ msg.MinSelfDelegation = 150
    /\ verr.err = ErrSelfDelegationBelowMinimum

FailingPortions ==
    <<ValidatorPortion(<<1>>, Coin(10)), ValidatorPortion(<<2>>, Coin(-5))>>

HasDuplicateValidator(portions) ==
    \E i, j \in 1..Len(portions) :
        i # j /\ portions[i].ValidatorAddress = portions[j].ValidatorAddress

BadPortion(p) == Empty(p.ValidatorAddress) \/ p.Amount.Amount <= 0

\* C4 (as stated): a MsgIndexDelegate that names a validator in two
\* positions of Portions never passes ValidateBasic.
C4_DuplicateRejected ==
    (msg.type = "index_delegate" /\ verr.done /\ HasDuplicateValidator(msg.Portions))
        => verr.err # Nil

\* C4 (amended): ValidateBasic does not look for repeated validators: a
\* MsgIndexDelegate that names a validator in two positions is rejected only
\* when its delegator is empty or one of its portions has an empty validator
\* address or a non-positive amount, and is accepted otherwise.
C4_DuplicateNotChecked ==
    (msg.type = "index_delegate" /\ verr.done /\ HasDuplicateValidator(msg.Portions))
        => (verr.err # Nil <=>
                (Empty(msg.DelegatorAddress)
                    \/ \E i \in 1..Len(msg.Portions) : BadPortion(msg.Portions[i])))

C4_Witness ==
    /\ msg.type = "index_delegate"
    /\ verr.done
    /\ HasDuplicateValidator(msg.Portions)
    /\ verr.err = Nil

\* C5: MsgCreateValidator.GetSigners returns the delegator first, followed by
\* the validator exactly when its bytes differ from the delegator's: one
\* signer when the addresses are equal, two otherwise, never one twice.
C5_GetSigners ==
    (msg.type = "create_validator" /\ signers.done) =>
        /\ Head(signers.addrs) = msg.DelegatorAddress
        /\ msg.ValidatorAddress = msg.DelegatorAddress
              => signers.addrs = <<msg.DelegatorAddress>>
        /\ msg.ValidatorAddress # msg.DelegatorAddress
              => signers.addrs = <<msg.DelegatorAddress, msg.ValidatorAddress>>
        /\ \A i, j \in 1..Len(signers.addrs) :
              i # j => signers.addrs[i] # signers.addrs[j]

C5_Witness ==
    /\ msg.type = "create_validator"
    /\ signers.done
    /\ msg.ValidatorAddress # msg.DelegatorAddress
    /\ Len(signers.addrs) = 2

BadPortions(portions) == {i \in 1..Len(portions) : BadPortion(portions[i])}

FirstOf(S) == CHOOSE i \in S : \A j \in S : i <= j

\* C7: MsgIndexDelegate.ValidateBasic returns NilDelegatorAddress for an
\* empty delegator; otherwise the error of the lowest-index portion with an
\* empty validator address (NilValidatorAddress) or else a non-positive
\* amount (BadDelegationAmount), whatever the later portions; and it succeeds
\* exactly when the delegator is non-empty and no portion is such.
C7_IndexValidateBasicOrder ==
    (msg.type = "index_delegate" /\ verr.done) =>
        LET bad == BadPortions(msg.Portions) IN
        /\ Empty(msg.DelegatorAddress) => verr.err = ErrNilDelegatorAddr
        /\ (~Empty(msg.DelegatorAddress) /\ bad # {}) =>
              verr.err = IF Empty(msg.Portions[FirstOf(bad)].ValidatorAddress)
                         THEN ErrNilValidatorAddr
                         ELSE ErrBadDelegationAmount
        /\ verr.err = Nil <=> (~Empty(msg.DelegatorAddress) /\ bad = {})

C7_Witness ==
    /\ msg.type = "index_delegate"
    /\ verr.done
    /\ Len(msg.Portions) = 2
    /\ ~Empty(msg.Portions[1].ValidatorAddress)
    /\ msg.Portions[1].Amount.Amount <= 0
    /\ Empty(msg.Portions[2].ValidatorAddress)
    /\ verr.err = ErrBadDelegationAmount

RateText == "commission rate must be between 0 and 1, inclusive"

RateOutOfRange(m) == m.CommissionRate.present /\ ~RateInRange(m.CommissionRate)

MinSelfNotPositive(m) == m.MinSelfDelegation.present /\ ~(m.MinSelfDelegation.val > 0)

\* C8 (as stated): a MsgEditValidator whose rate is present and outside
\* [0, 1] fails with InvalidInput whatever its other fields; one whose
\* min-self-delegation is present and not positive fails; a rate of exactly
\* 0 or 1 is not rejected by the rate check.
C8_RateOutOfRangeIsInvalidInput ==
    (msg.type = "edit_validator" /\ verr.done) =>
        /\ RateOutOfRange(msg) => verr.err.kind = "InvalidInput"
        /\ MinSelfNotPositive(msg) => verr.err # Nil
        /\ (msg.CommissionRate.present /\ msg.CommissionRate.val \in {0, OneDec})
              => verr.err.text # RateText

\* C8 (amended): a MsgEditValidator whose rate is present and outside [0, 1]
\* fails; the error is InvalidInput unless the validator address and the
\* description are non-empty and the min-self-delegation is present and not
\* positive, and then it is MinSelfDelegationInvalid. One whose
\* min-self-delegation is present and not positive fails; a rate of exactly
\* 0 or 1 is not rejected by the rate check.
C8_RateOutOfRangeFails ==
    (msg.type = "edit_validator" /\ verr.done) =>
        /\ RateOutOfRange(msg) =>
              verr.err.kind =
                  IF /\ ~Empty(msg.ValidatorAddress)
                     /\ msg.Description # EmptyDescription
                     /\ MinSelfNotPositive(msg)
                  THEN "MinSelfDelegationInvalid"
                  ELSE "InvalidInput"
        /\ MinSelfNotPositive(msg) => verr.err # Nil
        /\ (msg.CommissionRate.present /\ msg.CommissionRate.val \in {0, OneDec})
              => verr.err.text # RateText

C8_Witness ==
    /\ msg.type = "edit_validator"
    /\ verr.done
    /\ msg.CommissionRate = Ptr(15)
    /\ msg.MinSelfDelegation = Ptr(0)
    /\ verr.err = ErrMinSelfDelegationInvalid

\* C9: ValidateBasic of MsgDelegate, MsgUndelegate and MsgBeginRedelegate
\* succeeds exactly when every address of the message is non-empty and the
\* amount is strictly positive, and leaves the ledger as it was.
C9_DelegationValidateBasic ==
    /\ (msg.type \in {"delegate", "begin_unbonding"} /\ verr.done) =>
          (verr.err = Nil <=>
              (/\ ~Empty(msg.DelegatorAddress)
               /\ ~Empty(msg.ValidatorAddress)
               /\ msg.Amount.Amount > 0))
    /\ (msg.type = "begin_redelegate" /\ verr.done) =>
          (verr.err = Nil <=>
              (/\ ~Empty(msg.DelegatorAddress)
               /\ ~Empty(msg.ValidatorSrcAddress)
               /\ ~Empty(msg.ValidatorDstAddress)
               /\ msg.Amount.Amount > 0))
    /\ verr.done => (validators = {} /\ \A k \in DelegationKeys : shares[k] = 0)

C9_Witness ==
    /\ msg.type = "begin_redelegate"
    /\ verr.done
    /\ ~Empty(msg.DelegatorAddress)
    /\ ~Empty(msg.ValidatorSrcAddress)
    /\ Empty(msg.ValidatorDstAddress)
    /\ msg.Amount.Amount > 0
    /\ verr.err = ErrNilValidatorAddr

\* C10: a MsgCreateValidator that passes ValidateBasic has exactly one
\* signer, its delegator.
C10_ValidatedCreateHasOneSigner ==
    (msg.type = "create_validator" /\ verr.done /\ verr.err = Nil /\ signers.done)
        => signers.addrs = <<msg.DelegatorAddress>>

C10_Witness ==
    /\ msg.type = "create_validator"
    /\ verr.done
    /\ verr.err = Nil
    /\ signers.done
    /\ Len(signers.addrs) = 1

====
